---- MODULE Spec2Model ----
(***************************************************************************)
(* Model of the mesh generators of bevy_more_shapes: Cone, Cylinder, Grid, *)
(* Polygon, Torus and Curve, and of the helpers they share.                *)
(*                                                                         *)
(* Every generator is a pure function from a parameter record to a mesh or *)
(* a panic.  A behaviour of Spec is one call: Init draws the parameter      *)
(* record, the generator's action computes what the call returns.  A       *)
(* behaviour of SpecSeq is a sequence of such calls.                       *)
(*                                                                         *)
(* Numbers.  f32 parameters (radii, heights, angles in radians) are        *)
(* integers in units of 1e-4, so 1.0 is 10000 and TAU is 62832.  Values    *)
(* the code computes by division are exact rationals <<num, den>>; a zero  *)
(* denominator stands for the non-finite results of f32 division           *)
(* (<<1,0>> = +inf, <<-1,0>> = -inf, <<0,0>> = NaN).  Angles the code gets *)
(* from acos are rationals in turns (1/4 = 90 degrees).  Trigonometric     *)
(* values are kept symbolic: a record naming the angle they are taken at.  *)
(* u32 and usize values are naturals: within the bounds below no index    *)
(* computation comes near 2^32, and every subtraction follows the check   *)
(* that keeps it from going below 0.                                       *)
(***************************************************************************)
EXTENDS Integers, Sequences, FiniteSets, TLC

VARIABLES pc, call, out, evals, frames, steps, log

vars == <<pc, call, out, evals, frames, steps, log>>

-----------------------------------------------------------------------------
(* Bounds of the model *)

MaxSegments == 4

MaxGrid == 3

MaxTorus == 4

MaxPoints == 4

MaxLen == 3

MaxRadial == 3

MaxIndex == 3

MaxNgon == 6

MaxCalls == 3

(* std::f32::consts::TAU in units of 1e-4 *)
TAU == 62832

-----------------------------------------------------------------------------
(* Arithmetic helpers *)

Abs(x) == IF x < 0 THEN -x ELSE x

Sign(x) == IF x < 0 THEN -1 ELSE IF x > 0 THEN 1 ELSE 0

RECURSIVE Gcd(_, _)
Gcd(a, b) == IF b = 0 THEN a ELSE Gcd(b, a % b)

(* f32 division n / d as an exact rational in lowest terms *)
Rat(n, d) ==
    IF d = 0 THEN <<Sign(n), 0>>
    ELSE LET g == Gcd(Abs(n), Abs(d))
             s == Sign(d)
         IN  <<(s * n) \div g, (s * d) \div g>>

RatMul(a, b) == Rat(a[1] * b[1], a[2] * b[2])

RatLe(a, b) == a[1] * b[2] <= b[1] * a[2]

(* what a loop pushes to a Vec: the concatenation of what each pass pushes *)
RECURSIVE Flatten(_)
Flatten(passes) ==
    IF passes = <<>> THEN <<>> ELSE Head(passes) \o Flatten(Tail(passes))

-----------------------------------------------------------------------------
(* What a call returns *)

MeshDataNew == [positions |-> <<>>, normals |-> <<>>, uvs |-> <<>>, indices |-> <<>>]

NoResult ==
    [kind |-> "none", msg |-> "", positions |-> <<>>, normals |-> <<>>,
     uvs |-> <<>>, indices |-> <<>>]

(* a failed assert! or unwrap(): the call unwinds, nothing is returned *)
Panic(m) == [NoResult EXCEPT !.kind = "panic", !.msg = m]

(* Mesh::new(TriangleList) with the four buffers attached *)
TriangleMesh(mesh) ==
    [kind |-> "mesh", msg |-> "", positions |-> mesh.positions,
     normals |-> mesh.normals, uvs |-> mesh.uvs, indices |-> mesh.indices]

-----------------------------------------------------------------------------
(* util.rs: the trapeze indexer *)

(* the trapeze indexer with the second triangle wound the other way *)
generate_triangles_flipped(face, indices) ==
    indices \o <<face.upper_left, face.upper_right, face.lower_left,
                 face.upper_right, face.lower_left, face.lower_right>>

generate_triangles(face, indices) ==
    indices \o <<face.upper_left, face.upper_right, face.lower_left,
                 face.upper_right, face.lower_right, face.lower_left>>

FlatTrapezeIndices(ll, ul, lr, ur) ==
    [lower_left |-> ll, upper_left |-> ul, lower_right |-> lr, upper_right |-> ur]

-----------------------------------------------------------------------------
(* cone.rs *)

(* theta = i * (TAU / segments), as the fraction i/segments of a turn *)
ConeRingVertex(cone, i) ==
    [position |-> [r |-> cone.radius, turn |-> Rat(i, cone.segments),
                   y |-> Rat(-cone.height, 2)],
     uv       |-> [kind |-> "disk", turn |-> Rat(i, cone.segments), flip |-> -1],
     normal   |-> <<0, -1, 0>>]

add_bottom(mesh, cone) ==
    LET base_index == (Len(mesh.positions))
        s == cone.segments
        center == [r |-> 0, turn |-> <<0, 1>>, y |-> Rat(-cone.height, 2)]
        ring == [k \in 1..(s + 1) |-> ConeRingVertex(cone, k - 1)]
        tri(i) == <<(base_index + i + 1), (base_index + i + 2), base_index>>
    IN  [positions |-> (mesh.positions \o <<center>>)
                         \o [k \in 1..(s + 1) |-> ring[k].position],
         uvs       |-> (mesh.uvs \o << <<Rat(1, 2), Rat(1, 2)>> >>)
                         \o [k \in 1..(s + 1) |-> ring[k].uv],
         normals   |-> (mesh.normals \o << <<0, -1, 0>> >>)
                         \o [k \in 1..(s + 1) |-> ring[k].normal],
         indices   |-> mesh.indices \o Flatten([k_ \in 1..s |-> tri(k_ - 1)])]

(* normalize((cos theta, radius / height, sin theta)) *)
ConeSlopeNormal(cone, turn) ==
    [kind |-> "slope", turn |-> turn, slope |-> Rat(cone.radius, cone.height)]

(* add_body with every triangle on the first apex vertex *)
add_body_shared_apex(mesh, cone) ==
    LET base_index == (Len(mesh.positions))
        s == cone.segments
        (* theta = i * angle_step + angle_step / 2 *)
        topTurn(i) == Rat(2 * i + 1, 2 * s)
        tri(i) == LET top == base_index
                      left == (base_index + s + i)
                      right == (left + 1)
                  IN  <<right, left, top>>
    IN  [positions |-> (mesh.positions
                         \o [k \in 1..s |->
                               [r |-> 0, turn |-> <<0, 1>>, y |-> Rat(cone.height, 2)]])
                         \o [k \in 1..(s + 1) |->
                               [r |-> cone.radius, turn |-> Rat(k - 1, s),
                                y |-> Rat(-cone.height, 2)]],
         normals   |-> (mesh.normals
                         \o [k \in 1..s |-> ConeSlopeNormal(cone, topTurn(k - 1))])
                         \o [k \in 1..(s + 1) |-> ConeSlopeNormal(cone, Rat(k - 1, s))],
         uvs       |-> (mesh.uvs
                         \o [k \in 1..s |-> <<Rat(1, 2), Rat(1, 2)>>])
                         \o [k \in 1..(s + 1) |->
                               [kind |-> "disk", turn |-> Rat(k - 1, s), flip |-> 1]],
         indices   |-> mesh.indices \o Flatten([k_ \in 1..s |-> tri(k_ - 1)])]

add_body(mesh, cone) ==
    LET base_index == (Len(mesh.positions))
        s == cone.segments
        (* theta = i * angle_step + angle_step / 2 *)
        topTurn(i) == Rat(2 * i + 1, 2 * s)
        tri(i) == LET top == (base_index + i)
                      left == (base_index + s + i)
                      right == (left + 1)
                  IN  <<right, left, top>>
    IN  [positions |-> (mesh.positions
                         \o [k \in 1..s |->
                               [r |-> 0, turn |-> <<0, 1>>, y |-> Rat(cone.height, 2)]])
                         \o [k \in 1..(s + 1) |->
                               [r |-> cone.radius, turn |-> Rat(k - 1, s),
                                y |-> Rat(-cone.height, 2)]],
         normals   |-> (mesh.normals
                         \o [k \in 1..s |-> ConeSlopeNormal(cone, topTurn(k - 1))])
                         \o [k \in 1..(s + 1) |-> ConeSlopeNormal(cone, Rat(k - 1, s))],
         uvs       |-> (mesh.uvs
                         \o [k \in 1..s |-> <<Rat(1, 2), Rat(1, 2)>>])
                         \o [k \in 1..(s + 1) |->
                               [kind |-> "disk", turn |-> Rat(k - 1, s), flip |-> 1]],
         indices   |-> mesh.indices \o Flatten([k_ \in 1..s |-> tri(k_ - 1)])]

(* From<Cone> with the segment check one too low *)
ConeFromMin2(cone) ==
    IF ~(cone.height > 0) THEN Panic("Must have positive height")
    ELSE IF ~(cone.radius > 0) THEN Panic("Must have positive radius")
    ELSE IF ~(cone.segments > 1)
         THEN Panic("Must have at least 3 subdivisions to close the surface")
    ELSE TriangleMesh(add_body(add_bottom(MeshDataNew, cone), cone))

ConeFrom(cone) ==
    IF ~(cone.height > 0) THEN Panic("Must have positive height")
    ELSE IF ~(cone.radius > 0) THEN Panic("Must have positive radius")
    ELSE IF ~(cone.segments > 2)
         THEN Panic("Must have at least 3 subdivisions to close the surface")
    ELSE TriangleMesh(add_body(add_bottom(MeshDataNew, cone), cone))

-----------------------------------------------------------------------------
(* cylinder.rs *)

VertexPass == <<"Top", "Bottom", "TopRing", "BottomRing">>

(* add_indices_top with each triangle wound as the bottom cap's are *)
add_indices_top_same_winding(indices, mid_idx, cylinder) ==
    LET tri(i) == <<mid_idx, i, (i + 1)>>
    IN  (indices \o Flatten([k_ \in 1..(cylinder.subdivisions - 1) |-> tri(k_ - 1)]))
          \o <<mid_idx, (cylinder.subdivisions - 1), 0>>

add_indices_top(indices, mid_idx, cylinder) ==
    LET tri(i) == <<mid_idx, (i + 1), i>>
    IN  (indices \o Flatten([k_ \in 1..(cylinder.subdivisions - 1) |-> tri(k_ - 1)]))
          \o <<mid_idx, 0, (cylinder.subdivisions - 1)>>

(* add_indices_bottom with the bottom face taken to start at vertex 0 *)
add_indices_bottom_on_top_face(indices, mid_idx, cylinder) ==
    LET base_index_bottom == 0
        tri(i) == <<(i + base_index_bottom), (i + 1 + base_index_bottom), mid_idx>>
    IN  (indices \o Flatten([k_ \in 1..(cylinder.subdivisions - 1) |-> tri(k_ - 1)]))
          \o <<(base_index_bottom + cylinder.subdivisions - 1),
               base_index_bottom, mid_idx>>

add_indices_bottom(indices, mid_idx, cylinder) ==
    LET base_index_bottom == cylinder.subdivisions
        tri(i) == <<(i + base_index_bottom), (i + 1 + base_index_bottom), mid_idx>>
    IN  (indices \o Flatten([k_ \in 1..(cylinder.subdivisions - 1) |-> tri(k_ - 1)]))
          \o <<(base_index_bottom + cylinder.subdivisions - 1),
               base_index_bottom, mid_idx>>

(* add_indices_body with the bottom ring taken to start at 4 * subdivisions *)
add_indices_body_wrong_base(indices, cylinder) ==
    LET s == cylinder.subdivisions
        base_index_top_ring == s * 2
        base_index_bottom_ring == s * 4
        quad(i) == generate_triangles(
                       FlatTrapezeIndices(i + base_index_bottom_ring,
                                          i + base_index_top_ring,
                                          i + 1 + base_index_bottom_ring,
                                          i + 1 + base_index_top_ring), <<>>)
    IN  generate_triangles(
            FlatTrapezeIndices(base_index_bottom_ring + s - 1,
                               base_index_top_ring + s - 1,
                               base_index_bottom_ring,
                               base_index_top_ring),
            indices \o Flatten([k_ \in 1..(s - 1) |-> quad(k_ - 1)]))

add_indices_body(indices, cylinder) ==
    LET s == cylinder.subdivisions
        base_index_top_ring == (s * 2)
        base_index_bottom_ring == (s * 3)
        quad(i) == generate_triangles(
                       FlatTrapezeIndices(i + base_index_bottom_ring,
                                          i + base_index_top_ring,
                                          i + 1 + base_index_bottom_ring,
                                          i + 1 + base_index_top_ring), <<>>)
    IN  generate_triangles(
            FlatTrapezeIndices(base_index_bottom_ring + s - 1,
                               base_index_top_ring + s - 1,
                               base_index_bottom_ring,
                               base_index_top_ring),
            indices \o Flatten([k_ \in 1..(s - 1) |-> quad(k_ - 1)]))

(* Vec3::new(position.x, 0, position.z).normalize(): the unit radial vector, *)
(* or NaN when the ring's radius is 0 and the vector has no length           *)
CylinderRingNormal(radius, turn) ==
    IF radius = 0 THEN [kind |-> "nan"] ELSE [kind |-> "radial", turn |-> turn]

CylinderVertex(cylinder, pass, row_idx) ==
    LET turn == Rat(row_idx, cylinder.subdivisions)
        height == IF pass \in {"Top", "TopRing"} THEN Rat(cylinder.height, 2)
                  ELSE Rat(-cylinder.height, 2)
        radius == IF pass \in {"Top", "TopRing"} THEN cylinder.radius_top
                  ELSE cylinder.radius_bottom
        position == [r |-> radius, turn |-> turn, y |-> height]
    IN  [position |-> position,
         normal   |-> CASE pass = "Top" -> <<0, 1, 0>>
                        [] pass = "Bottom" -> <<0, -1, 0>>
                        [] OTHER -> CylinderRingNormal(radius, turn),
         (* sphere_coordinates(-position.normalize()), u folded into [0, 1] *)
         uv       |-> [kind |-> "sphere", of |-> position]]

CylinderFrom(cylinder) ==
    IF ~(cylinder.height > 0) THEN Panic("Must have positive height")
    ELSE IF ~(cylinder.radius_bottom >= 0) THEN Panic("Must have positive radius.")
    ELSE IF ~(cylinder.radius_top >= 0) THEN Panic("Must have positive radius.")
    ELSE IF ~(cylinder.subdivisions > 2)
         THEN Panic("Must have at least 3 subdivisions to close the surface.")
    ELSE
    LET s == cylinder.subdivisions
        ring(p) == [k \in 1..s |-> CylinderVertex(cylinder, VertexPass[p], k - 1)]
        verts == Flatten([k_ \in 1..4 |-> ring(k_)])
        vertices == [k \in 1..Len(verts) |-> verts[k].position]
                      \o <<[r |-> 0, turn |-> <<0, 1>>, y |-> Rat(cylinder.height, 2)],
                           [r |-> 0, turn |-> <<0, 1>>, y |-> Rat(-cylinder.height, 2)]>>
        normals == [k \in 1..Len(verts) |-> verts[k].normal]
                      \o << <<0, 1, 0>>, <<0, -1, 0>> >>
        uvs == [k \in 1..Len(verts) |-> verts[k].uv]
                      \o << <<Rat(1, 2), <<0, 1>> >>, <<Rat(1, 2), <<1, 1>> >> >>
        top_mid_idx == (Len(vertices) - 2)
        bottom_mid_idx == (Len(vertices) - 1)
        indices == add_indices_body(
                       add_indices_bottom(
                           add_indices_top(<<>>, top_mid_idx, cylinder),
                           bottom_mid_idx, cylinder),
                       cylinder)
    IN  TriangleMesh([positions |-> vertices, normals |-> normals,
                      uvs |-> uvs, indices |-> indices])

-----------------------------------------------------------------------------
(* grid.rs *)

(* Grid::default() *)
GridDefault ==
    [gen |-> "Grid", width |-> 10000, height |-> 10000,
     width_segments |-> 1, height_segments |-> 1]

(* From<Grid> with the vertex loop over 0..height_segments, the last row left out *)
GridFromNoLastRow(grid) ==
    IF ~(grid.width_segments > 0) THEN Panic("A grid must have segments")
    ELSE IF ~(grid.height_segments > 0) THEN Panic("A grid must have segments")
    ELSE IF ~(grid.width > 0) THEN Panic("A grid must have positive width")
    ELSE IF ~(grid.height > 0) THEN Panic("A grid must have positive height")
    ELSE
    LET ws == grid.width_segments
        hs == grid.height_segments
        num_points == hs * (ws + 1)
        xOf(k) == (k - 1) % (ws + 1)
        zOf(k) == (k - 1) \div (ws + 1)
        (* x * x_segment_len - width_half = (2 x width - width ws) / (2 ws) *)
        positions == [k \in 1..num_points |->
                        <<Rat(2 * xOf(k) * grid.width - grid.width * ws, 2 * ws), <<0, 1>>,
                          Rat(2 * zOf(k) * grid.height - grid.height * hs, 2 * hs)>>]
        uvs == [k \in 1..num_points |-> <<Rat(xOf(k), ws), Rat(zOf(k), hs)>>]
        normals == [k \in 1..num_points |-> <<0, 1, 0>>]
        quad(face_z, face_x) ==
            LET lower_left == face_z * (ws + 1) + face_x
            IN  generate_triangles(
                    FlatTrapezeIndices(lower_left, lower_left + (ws + 1),
                                       lower_left + 1, lower_left + 1 + (ws + 1)), <<>>)
        row(face_z) == LET q(face_x) == quad(face_z, face_x)
                       IN  Flatten([k_ \in 1..ws |-> q(k_ - 1)])
    IN  TriangleMesh([positions |-> positions, normals |-> normals, uvs |-> uvs,
                      indices |-> Flatten([k_ \in 1..hs |-> row(k_ - 1)])])

GridFrom(grid) ==
    IF ~(grid.width_segments > 0) THEN Panic("A grid must have segments")
    ELSE IF ~(grid.height_segments > 0) THEN Panic("A grid must have segments")
    ELSE IF ~(grid.width > 0) THEN Panic("A grid must have positive width")
    ELSE IF ~(grid.height > 0) THEN Panic("A grid must have positive height")
    ELSE
    LET ws == grid.width_segments
        hs == grid.height_segments
        num_points == (hs + 1) * (ws + 1)
        xOf(k) == (k - 1) % (ws + 1)
        zOf(k) == (k - 1) \div (ws + 1)
        (* x * x_segment_len - width_half = (2 x width - width ws) / (2 ws) *)
        positions == [k \in 1..num_points |->
                        <<Rat(2 * xOf(k) * grid.width - grid.width * ws, 2 * ws), <<0, 1>>,
                          Rat(2 * zOf(k) * grid.height - grid.height * hs, 2 * hs)>>]
        uvs == [k \in 1..num_points |-> <<Rat(xOf(k), ws), Rat(zOf(k), hs)>>]
        normals == [k \in 1..num_points |-> <<0, 1, 0>>]
        quad(face_z, face_x) ==
            LET lower_left == face_z * (ws + 1) + face_x
            IN  generate_triangles(
                    FlatTrapezeIndices(lower_left, lower_left + (ws + 1),
                                       lower_left + 1, lower_left + 1 + (ws + 1)), <<>>)
        row(face_z) == LET q(face_x) == quad(face_z, face_x)
                       IN  Flatten([k_ \in 1..ws |-> q(k_ - 1)])
    IN  TriangleMesh([positions |-> positions, normals |-> normals, uvs |-> uvs,
                      indices |-> Flatten([k_ \in 1..hs |-> row(k_ - 1)])])

-----------------------------------------------------------------------------
(* torus.rs *)

TorusVertex(torus, horizontal_idx, vertical_idx) ==
    LET (* angle_step * idx + offset, in units of 1e-4 rad *)
        theta_horizontal ==
            Rat(torus.radial_circumference * horizontal_idx
                  + torus.radial_offset * torus.radial_segments, torus.radial_segments)
        theta_vertical ==
            Rat(torus.tube_circumference * vertical_idx
                  + torus.tube_offset * torus.tube_segments, torus.tube_segments)
    IN  [position |-> [radius |-> torus.radius, tube_radius |-> torus.tube_radius,
                       theta_horizontal |-> theta_horizontal,
                       theta_vertical |-> theta_vertical],
         (* (position - ring_center).normalize() *)
         normal   |-> [kind |-> "tube", theta_horizontal |-> theta_horizontal,
                       theta_vertical |-> theta_vertical],
         uv       |-> <<Rat(horizontal_idx, torus.radial_segments),
                        Rat(vertical_idx, torus.tube_segments)>>]

(* generate_torus_body with the faces indexed as if a ring had tube_segments vertices *)
generate_torus_body_stride_ts(mesh, torus) ==
    LET rs == torus.radial_segments
        ts == torus.tube_segments
        n == (rs + 1) * (ts + 1)
        vert(k) == TorusVertex(torus, (k - 1) \div (ts + 1), (k - 1) % (ts + 1))
        quad(horizontal_idx, vertical_idx) ==
            LET ring0_base_idx == horizontal_idx * ts
                ring1_base_idx == (horizontal_idx + 1) * ts
            IN  generate_triangles(
                    FlatTrapezeIndices(ring0_base_idx + vertical_idx,
                                       ring0_base_idx + vertical_idx + 1,
                                       ring1_base_idx + vertical_idx,
                                       ring1_base_idx + vertical_idx + 1), <<>>)
        ring(h) == LET q(v) == quad(h, v) IN Flatten([k_ \in 1..ts |-> q(k_ - 1)])
    IN  [positions |-> mesh.positions \o [k \in 1..n |-> vert(k).position],
         normals   |-> mesh.normals \o [k \in 1..n |-> vert(k).normal],
         uvs       |-> mesh.uvs \o [k \in 1..n |-> vert(k).uv],
         indices   |-> mesh.indices \o Flatten([k_ \in 1..rs |-> ring(k_ - 1)])]

generate_torus_body(mesh, torus) ==
    LET rs == torus.radial_segments
        ts == torus.tube_segments
        n == (rs + 1) * (ts + 1)
        vert(k) == TorusVertex(torus, (k - 1) \div (ts + 1), (k - 1) % (ts + 1))
        quad(horizontal_idx, vertical_idx) ==
            LET ring0_base_idx == horizontal_idx * (ts + 1)
                ring1_base_idx == (horizontal_idx + 1) * (ts + 1)
            IN  generate_triangles(
                    FlatTrapezeIndices(ring0_base_idx + vertical_idx,
                                       ring0_base_idx + vertical_idx + 1,
                                       ring1_base_idx + vertical_idx,
                                       ring1_base_idx + vertical_idx + 1), <<>>)
        ring(h) == LET q(v) == quad(h, v) IN Flatten([k_ \in 1..ts |-> q(k_ - 1)])
    IN  [positions |-> mesh.positions \o [k \in 1..n |-> vert(k).position],
         normals   |-> mesh.normals \o [k \in 1..n |-> vert(k).normal],
         uvs       |-> mesh.uvs \o [k \in 1..n |-> vert(k).uv],
         indices   |-> mesh.indices \o Flatten([k_ \in 1..rs |-> ring(k_ - 1)])]

TorusFrom(torus) ==
    IF ~(torus.radius > 0) THEN Panic("The radii of a torus must be positive")
    ELSE IF ~(torus.tube_radius > 0) THEN Panic("The radii of a torus must be positive")
    ELSE IF ~(torus.radial_segments >= 3) THEN Panic("Must have at least 3 radial segments")
    ELSE IF ~(torus.tube_segments >= 3) THEN Panic("3 Must have at least 3 tube segments")
    ELSE IF ~(torus.radial_circumference > 0)
         THEN Panic("Radial circumference must be positive")
    ELSE IF ~(torus.tube_circumference > 0)
         THEN Panic("Tube circumference must be positive")
    ELSE IF ~(torus.radial_circumference <= TAU)
         THEN Panic("Radial circumference must not exceed 2pi radians")
    ELSE IF ~(torus.tube_circumference <= TAU)
         THEN Panic("Tube circumference must not exceed 2pi radians")
    ELSE IF torus.radial_circumference < TAU
              /\ ~(torus.radial_offset >= 0 /\ torus.radial_offset <= TAU)
         THEN Panic("Radial offset must be between 0 and 2pi")
    ELSE IF torus.tube_radius < TAU
              /\ ~(torus.tube_radius >= 0 /\ torus.tube_radius <= TAU)
         THEN Panic("Tube offset must be between 0 and 2pi")
    ELSE TriangleMesh(generate_torus_body(MeshDataNew, torus))

-----------------------------------------------------------------------------
(* polygon.rs *)

Min(a, b) == IF a <= b THEN a ELSE b

Max(a, b) == IF a >= b THEN a ELSE b

(* f32::cos and f32::sin of theta = angle_step * i = 2 pi i / n, in units of *)
(* 1e-4: row n holds the values for i = 0..n-1                               *)
CosTable ==
    << <<10000>>,
       <<10000, -10000>>,
       <<10000, -5000, -5000>>,
       <<10000, 0, -10000, 0>>,
       <<10000, 3090, -8090, -8090, 3090>>,
       <<10000, 5000, -5000, -10000, -5000, 5000>>,
       <<10000, 6235, -2225, -9010, -9010, -2225, 6235>>,
       <<10000, 7071, 0, -7071, -10000, -7071, 0, 7071>> >>

SinTable ==
    << <<0>>,
       <<0, 0>>,
       <<0, 8660, -8660>>,
       <<0, 10000, 0, -10000>>,
       <<0, 9511, 5878, -5878, -9511>>,
       <<0, 8660, 8660, 0, -8660, -8660>>,
       <<0, 7818, 9749, 4339, -4339, -9749, -7818>>,
       <<0, 7071, 10000, 7071, 0, -7071, -10000, -7071>> >>

(* Vec2::new(radius * cos(theta), radius * sin(theta)), in units of 1e-4 *)
NgonPoint(radius, i, n) ==
    <<(radius * CosTable[n][(i % n) + 1]) \div 10000,
      (radius * SinTable[n][(i % n) + 1]) \div 10000>>

new_regular_ngon(radius, n) ==
    [points |-> [k \in 1..n |-> NgonPoint(radius, k - 1, n)]]

new_triangle(radius) == new_regular_ngon(radius, 3)

RECURSIVE bounding_rect_for_points(_)
bounding_rect_for_points(points) ==
    IF points = <<>> THEN [min |-> <<0, 0>>, max |-> <<0, 0>>]
    ELSE LET rest == bounding_rect_for_points(SubSeq(points, 1, Len(points) - 1))
             point == points[Len(points)]
         IN  [min |-> <<Min(rest.min[1], point[1]), Min(rest.min[2], point[2])>>,
              max |-> <<Max(rest.max[1], point[1]), Max(rest.max[2], point[2])>>]

(* CustomWindingFanToListAdapter: a fan (vi0; vi1, vi2, ...) becomes the       *)
(* triangles (vi0, vi2, vi1), (vi0, vi3, vi2), ..., each in reverse winding    *)
CustomWindingFanToListAdapter(fan) ==
    LET tri(k) == <<fan[1], fan[k + 1], fan[k]>>
    IN  Flatten([k_ \in 1..(Len(fan) - 2) |-> tri(k_ + 1)])

(* polygons.triangulate::<CustomWindingFanToListAdapter<..>>(..).  The crate  *)
(* that triangulates is not part of the repository: what it does with the     *)
(* boundary comes with the call, either the error it returns or the fans it   *)
(* hands to the adapter, which writes each fan's triangles to the index list. *)
Triangulate(points, triangulation) ==
    IF triangulation.ok
    THEN [ok |-> TRUE,
          indices |-> Flatten([k \in 1..Len(triangulation.fans) |->
                                 CustomWindingFanToListAdapter(triangulation.fans[k])])]
    ELSE [ok |-> FALSE, indices |-> <<>>]

(* assert!(polygon.points.len() >= 3, ..) *)
PolygonValid(polygon) == Len(polygon.points) >= 3

(* unwrap() on an Err panics with std's text for it, which ends in the Debug *)
(* form of the crate's error; msg names the call that panicked, not the text *)
PolygonFrom(polygon) ==
    IF ~PolygonValid(polygon)
    THEN Panic("At least 3 points are needed to produce a closed shape.")
    ELSE
    LET points == polygon.points
        domain == bounding_rect_for_points(points)
        positions == [k \in 1..Len(points) |->
                        <<<<points[k][1], 1>>, <<0, 1>>, <<points[k][2], 1>> >>]
        normals == [k \in 1..Len(points) |-> <<0, 1, 0>>]
        uvs == [k \in 1..Len(points) |->
                  <<Rat(points[k][1] - domain.min[1], domain.max[1] - domain.min[1]),
                    Rat(points[k][2] - domain.min[2], domain.max[2] - domain.min[2])>>]
        result == Triangulate(points, polygon.triangulation)
    IN  IF ~result.ok
        THEN Panic("Result::unwrap()")
        ELSE TriangleMesh([positions |-> positions, normals |-> normals, uvs |-> uvs,
                           indices |-> result.indices])

-----------------------------------------------------------------------------
(* curve.rs: vectors.  Tangents of the modelled curves are unit vectors along *)
(* a world axis, so every vector of a frame has integer components and the    *)
(* rotations of the frame propagation are quarter turns.                      *)

VAdd(a, b) == <<a[1] + b[1], a[2] + b[2], a[3] + b[3]>>

VNeg(a) == <<-a[1], -a[2], -a[3]>>

VScale(k, a) == <<k * a[1], k * a[2], k * a[3]>>

Dot(a, b) == a[1] * b[1] + a[2] * b[2] + a[3] * b[3]

Cross(a, b) ==
    <<a[2] * b[3] - a[3] * b[2], a[3] * b[1] - a[1] * b[3], a[1] * b[2] - a[2] * b[1]>>

(* acos of a clamped dot product of unit axis vectors, in quarter turns *)
AcosQuarters(d) == IF d >= 1 THEN 0 ELSE IF d <= -1 THEN 2 ELSE 1

(* Quat::from_axis_angle(axis, q quarter turns).mul_vec3(v), axis a unit vector: *)
(* v cos + (axis x v) sin + axis (axis . v) (1 - cos)                             *)
RotateQuarters(axis, q, v) ==
    LET k == q % 4
        c == CASE k = 0 -> 1 [] k = 1 -> 0 [] k = 2 -> -1 [] OTHER -> 0
        sn == CASE k = 0 -> 0 [] k = 1 -> 1 [] k = 2 -> 0 [] OTHER -> -1
    IN  VAdd(VAdd(VScale(c, v), VScale(sn, Cross(axis, v))),
             VScale((1 - c) * Dot(axis, v), axis))

RatAdd(a, b) == Rat(a[1] * b[2] + b[1] * a[2], a[2] * b[2])

RatNeg(a) == <<-a[1], a[2]>>

(* const DELTA: f32 = 0.0001 *)
DELTA == <<1, 10000>>

-----------------------------------------------------------------------------
(* curve.rs: the caller's CurveFunction.  A curve is given by what it returns *)
(* at the samples t = i / length_segments: the tangent there (tangents[i+1],  *)
(* whether tangent_at is overridden or the default central difference) and    *)
(* the point there: the curve starts at the origin and moves one unit along   *)
(* the tangent between samples; a closed curve is back at its start at t = 1. *)

eval_at(curve, i) ==
    LET RECURSIVE walk(_)
        walk(k) == IF k = 0 THEN <<0, 0, 0>>
                   ELSE VAdd(walk(k - 1), curve.tangents[k])
        last == Len(curve.tangents) - 1
    IN  IF curve.closed /\ i = last THEN <<0, 0, 0>> ELSE walk(i)

(* the arguments tangent_at(t) passes to eval_at *)
tangent_at_evals(curve, t) ==
    IF curve.default_tangent THEN <<RatAdd(t, RatNeg(DELTA)), RatAdd(t, DELTA)>> ELSE <<>>

(* f32::MAX: above every finite value of the model, below infinity.  Rat never *)
(* yields a negative denominator, so the pair stands for no other value.       *)
F32_MAX == <<1, -1>>

(* f32::abs on a value num/den; infinity is <<1, 0>> or <<-1, 0>>, NaN <<0, 0>> *)
FAbs(x) == <<Abs(x[1]), x[2]>>

(* a <= b on f32 values that are not negative: false when either is NaN *)
FLe(a, b) ==
    LET nan(x) == x = <<0, 0>>
        inf(x) == x = <<1, 0>>
    IN  IF nan(a) \/ nan(b) THEN FALSE
        ELSE IF inf(b) THEN TRUE
        ELSE IF inf(a) THEN FALSE
        ELSE IF b = F32_MAX THEN TRUE
        ELSE IF a = F32_MAX THEN FALSE
        ELSE RatLe(a, b)

(* a vector of integers as a vector of f32 values *)
AsFloats(v) == <<<<v[1], 1>>, <<v[2], 1>>, <<v[3], 1>>>>

(* the components of tangent are f32 values num/den *)
initial_normal(tangent) ==
    LET tx == FAbs(tangent[1])
        ty == FAbs(tangent[2])
        tz == FAbs(tangent[3])
        x_taken == FLe(tx, F32_MAX)
        min1 == IF x_taken THEN tx ELSE F32_MAX
        n1 == IF x_taken THEN <<1, 0, 0>> ELSE <<0, 0, 0>>
        y_taken == FLe(ty, min1)
        min2 == IF y_taken THEN ty ELSE min1
        n2 == IF y_taken THEN <<0, 1, 0>> ELSE n1
    IN  IF FLe(tz, min2) THEN <<0, 0, 1>> ELSE n2

initial_frame(curve) ==
    LET origin == eval_at(curve, 0)
        tangent == curve.tangents[1]
        normal == initial_normal(AsFloats(tangent))
        (* tangent x normal is a unit vector here: normalize leaves it alone *)
        v == Cross(tangent, Cross(tangent, normal))
    IN  [origin |-> origin, tangent |-> tangent, normal |-> v,
         binormal |-> Cross(tangent, v), twist |-> <<0, 1>>]

(* next_frame without the final cross product: the binormal stays the one *)
(* copied from the previous frame                                         *)
next_frame_keep_binormal(curve, prev_frame, i) ==
    LET tangent == curve.tangents[i + 1]
        v == Cross(prev_frame.tangent, tangent)
        normal == IF Dot(v, v) > 0
                  THEN RotateQuarters(v, AcosQuarters(Dot(prev_frame.tangent, tangent)),
                                      prev_frame.normal)
                  ELSE prev_frame.normal
    IN  [origin |-> eval_at(curve, i), tangent |-> tangent, normal |-> normal,
         binormal |-> prev_frame.binormal, twist |-> <<0, 1>>]

(* one step of the propagation loop: frame i from frame i - 1 *)
next_frame(curve, prev_frame, i) ==
    LET tangent == curve.tangents[i + 1]
        v == Cross(prev_frame.tangent, tangent)
        normal == IF Dot(v, v) > 0
                  THEN RotateQuarters(v, AcosQuarters(Dot(prev_frame.tangent, tangent)),
                                      prev_frame.normal)
                  ELSE prev_frame.normal
    IN  [origin |-> eval_at(curve, i), tangent |-> tangent, normal |-> normal,
         binormal |-> Cross(tangent, normal), twist |-> <<0, 1>>]

RECURSIVE propagate_frames(_, _)
propagate_frames(curve, n) ==
    IF n = 1 THEN <<initial_frame(curve)>>
    ELSE LET before == propagate_frames(curve, n - 1)
         IN  Append(before, next_frame(curve, before[n - 1], n - 1))

(* the signed angle the closure correction turns by per step, in turns *)
discrepancy_theta(first_frame, last_frame, num_frames) ==
    LET t == Rat(AcosQuarters(Dot(first_frame.normal, last_frame.normal)),
                 4 * (num_frames - 1))
    IN  IF Dot(first_frame.tangent, Cross(first_frame.normal, last_frame.normal)) > 0
        THEN RatNeg(t)
        ELSE t

(* for (idx, frame) in out.iter_mut().skip(1).enumerate(): the frame at       *)
(* position k (0-based) of the list gets idx = k - 1.  A frame's twist is the *)
(* angle rot turns its normal (and binormal) by, about its own tangent.       *)
closure_rotation(frame, k, theta) ==
    IF k = 0 THEN frame
    ELSE [frame EXCEPT !.twist = RatMul(theta, <<k - 1, 1>>)]

calculate_frames(curve, num_frames) ==
    LET out_frames == propagate_frames(curve, num_frames)
        (* curve.eval_at(0.0).sub(curve.eval_at(1.0)).length() <= 2 epsilon *)
        closed == eval_at(curve, 0) = eval_at(curve, num_frames - 1)
        theta == discrepancy_theta(out_frames[1], out_frames[num_frames], num_frames)
    IN  IF closed
        THEN [k \in 1..num_frames |-> closure_rotation(out_frames[k], k - 1, theta)]
        ELSE out_frames

(* the arguments of every eval_at call calculate_frames makes, in call order *)
calculate_frames_evals(curve, num_frames) ==
    LET at(i) == LET t == Rat(i, num_frames - 1)
                 IN  <<t>> \o tangent_at_evals(curve, t)
    IN  Flatten([k_ \in 1..num_frames |-> at(k_ - 1)]) \o << <<0, 1>>, <<1, 1>> >>

-----------------------------------------------------------------------------
(* curve.rs: normalization, cross-sections, indices *)

(* Extent over a list of integer points, extend_to_include on each in turn: *)
(* min and max start at f32::MAX and f32::MIN, which any point replaces     *)
Extent(points) ==
    LET coord(a) == {points[k][a] : k \in 1..Len(points)}
        lo(a) == CHOOSE m \in coord(a) : \A x \in coord(a) : m <= x
        hi(a) == CHOOSE m \in coord(a) : \A x \in coord(a) : m >= x
    IN  [min |-> <<lo(1), lo(2), lo(3)>>, max |-> <<hi(1), hi(2), hi(3)>>]

(* normalize_point with scale = 1 / (largest half-extent over the axes) *)
normalize_point_half_extent(point, extent) ==
    LET lengths == VAdd(extent.max, VNeg(extent.min))
        longest == Max(Max(Abs(lengths[1]), Abs(lengths[2])), Abs(lengths[3]))
        scale == Rat(2, longest)
        centered(a) == Rat(2 * point[a] - 2 * extent.min[a] - lengths[a], 2)
    IN  <<RatMul(centered(1), scale), RatMul(centered(2), scale),
          RatMul(centered(3), scale)>>

(* (point - center) * scale with center = min + (max - min) / 2 and         *)
(* scale = 1 / (largest |max - min| over the axes); 0 * inf is NaN          *)
normalize_point(point, extent) ==
    LET lengths == VAdd(extent.max, VNeg(extent.min))
        longest == Max(Max(Abs(lengths[1]), Abs(lengths[2])), Abs(lengths[3]))
        scale == Rat(1, longest)
        centered(a) == Rat(2 * point[a] - 2 * extent.min[a] - lengths[a], 2)
    IN  <<RatMul(centered(1), scale), RatMul(centered(2), scale),
          RatMul(centered(3), scale)>>

normalize_frames(fs) ==
    LET extent == Extent([k \in 1..Len(fs) |-> fs[k].origin])
    IN  [k \in 1..Len(fs) |-> [fs[k] EXCEPT !.origin = normalize_point(@, extent)]]

normalize_positions(positions) ==
    LET extent == Extent(positions)
    IN  [k \in 1..Len(positions) |-> normalize_point(positions[k], extent)]

(* normalize(-cos(theta) * frame.normal + sin(theta) * frame.binormal), theta *)
(* in units of 1e-4 rad; the frame's vectors are turned by its twist          *)
RadialDirection(frame, theta, sign) ==
    [kind |-> "radial", normal |-> frame.normal, binormal |-> frame.binormal,
     twist |-> frame.twist, theta |-> theta, sign |-> sign]

add_tube_segment(mesh, frame, tube, index) ==
    LET R == tube.radial_segments
        theta(i) == Rat(tube.radial_circumference * i + tube.radial_offset * R, R)
        normal(i) == RadialDirection(frame, theta(i), 1)
    IN  [normals   |-> mesh.normals \o [k \in 1..(R + 1) |-> normal(k - 1)],
         positions |-> mesh.positions
                         \o [k \in 1..(R + 1) |->
                               [origin |-> frame.origin, radius |-> tube.radius,
                                dir |-> normal(k - 1)]],
         uvs       |-> mesh.uvs
                         \o [k \in 1..(R + 1) |->
                               <<Rat(index, tube.length_segments), Rat(k - 1, R)>>],
         indices   |-> mesh.indices]

add_ribbon_segment(mesh, frame, tube, index) ==
    LET (* radial_offset + FRAC_PI_2 *)
        theta == <<tube.radial_offset + 15708, 1>>
        base == RadialDirection(frame, theta, 1)
        minus_base == RadialDirection(frame, theta, -1)
        front_normal == [kind |-> "cross", tangent |-> frame.tangent, with |-> base]
        (* -front_normal *)
        back_normal == [kind |-> "neg", of |-> front_normal]
        u == Rat(index, tube.length_segments)
        at(dir) == [origin |-> frame.origin, radius |-> tube.radius, dir |-> dir]
        back == tube.radial_segments = 2
    IN  [normals   |-> (mesh.normals \o <<front_normal, front_normal>>)
                         \o (IF back THEN <<back_normal, back_normal>> ELSE <<>>),
         positions |-> (mesh.positions \o <<at(base), at(minus_base)>>)
                         \o (IF back THEN <<at(minus_base), at(base)>> ELSE <<>>),
         uvs       |-> (mesh.uvs \o << <<u, <<0, 1>> >>, <<u, <<1, 1>> >> >>)
                         \o (IF back THEN << <<u, <<0, 1>> >>, <<u, <<1, 1>> >> >>
                             ELSE <<>>),
         indices   |-> mesh.indices]

(* index_tube with both triangles of a face wound (a, b, c) and (a, c, d) *)
index_tube_fan(mesh, tube) ==
    LET R == tube.radial_segments
        face(j, i) ==
            LET a == (R + 1) * (j - 1) + (i - 1)
                b == (R + 1) * j + (i - 1)
                c == (R + 1) * j + i
                d == (R + 1) * (j - 1) + i
            IN  <<a, b, c, a, c, d>>
        ring(j) == LET f(i) == face(j, i) IN Flatten([k_ \in 1..R |-> f(k_)])
    IN  [mesh EXCEPT
          !.indices = @ \o Flatten([k_ \in 1..tube.length_segments |-> ring(k_)])]

index_tube(mesh, tube) ==
    LET R == tube.radial_segments
        face(j, i) ==
            LET a == (R + 1) * (j - 1) + (i - 1)
                b == (R + 1) * j + (i - 1)
                c == (R + 1) * j + i
                d == (R + 1) * (j - 1) + i
            IN  <<a, b, d, b, c, d>>
        ring(j) == LET f(i) == face(j, i) IN Flatten([k_ \in 1..R |-> f(k_)])
    IN  [mesh EXCEPT
          !.indices = @ \o Flatten([k_ \in 1..tube.length_segments |-> ring(k_)])]

(* index_ribbon with the tube's stride of radial_segments + 1 vertices per frame *)
index_ribbon_tube_stride(mesh, tube) ==
    LET R == tube.radial_segments
        face(ls, rs) ==
            generate_triangles(
                FlatTrapezeIndices(2 * (R + 1) * ls + 2 * rs,
                                   2 * (R + 1) * (ls + 1) + 2 * rs,
                                   2 * (R + 1) * ls + 2 * rs + 1,
                                   2 * (R + 1) * (ls + 1) + 2 * rs + 1), <<>>)
        strip(ls) == LET f(rs) == face(ls, rs) IN Flatten([k_ \in 1..R |-> f(k_ - 1)])
    IN  [mesh EXCEPT
          !.indices = @ \o Flatten([k_ \in 1..tube.length_segments |-> strip(k_ - 1)])]

(* index_ribbon with a stride of 2 vertices per frame whatever radial_segments is *)
index_ribbon_stride_2(mesh, tube) ==
    LET R == tube.radial_segments
        face(ls, rs) ==
            generate_triangles(
                FlatTrapezeIndices(2 * ls + 2 * rs,
                                   2 * (ls + 1) + 2 * rs,
                                   2 * ls + 2 * rs + 1,
                                   2 * (ls + 1) + 2 * rs + 1), <<>>)
        strip(ls) == LET f(rs) == face(ls, rs) IN Flatten([k_ \in 1..R |-> f(k_ - 1)])
    IN  [mesh EXCEPT
          !.indices = @ \o Flatten([k_ \in 1..tube.length_segments |-> strip(k_ - 1)])]

index_ribbon(mesh, tube) ==
    LET R == tube.radial_segments
        face(ls, rs) ==
            generate_triangles(
                FlatTrapezeIndices(2 * R * ls + 2 * rs,
                                   2 * R * (ls + 1) + 2 * rs,
                                   2 * R * ls + 2 * rs + 1,
                                   2 * R * (ls + 1) + 2 * rs + 1), <<>>)
        strip(ls) == LET f(rs) == face(ls, rs) IN Flatten([k_ \in 1..R |-> f(k_ - 1)])
    IN  [mesh EXCEPT
          !.indices = @ \o Flatten([k_ \in 1..tube.length_segments |-> strip(k_ - 1)])]

RECURSIVE add_segments(_, _, _, _)
add_segments(mesh, fs, tube, n) ==
    IF n = 0 THEN mesh
    ELSE LET before == add_segments(mesh, fs, tube, n - 1)
         IN  IF tube.radial_segments < 3
             THEN add_ribbon_segment(before, fs[n], tube, n - 1)
             ELSE add_tube_segment(before, fs[n], tube, n - 1)

add_tube(mesh, tube) ==
    LET fs == normalize_frames(calculate_frames(tube.curve, tube.length_segments + 1))
        filled == add_segments(mesh, fs, tube, Len(fs))
    IN  IF tube.radial_segments < 3 THEN index_ribbon(filled, tube)
        ELSE index_tube(filled, tube)

(* make_line with the loop over 0..length_segments, the end point left out *)
make_line_exclusive(tube) ==
    LET positions == [k \in 1..tube.length_segments |-> eval_at(tube.curve, k - 1)]
    IN  [NoResult EXCEPT !.kind = "line", !.positions = normalize_positions(positions)]

make_line(tube) ==
    LET positions == [k \in 1..(tube.length_segments + 1) |-> eval_at(tube.curve, k - 1)]
    IN  [NoResult EXCEPT !.kind = "line", !.positions = normalize_positions(positions)]

(* the arguments of the eval_at calls of make_line: t = step * i *)
make_line_evals(tube) ==
    [k \in 1..(tube.length_segments + 1) |-> Rat(k - 1, tube.length_segments)]

(* |radius| < f32::EPSILON: on the 1e-4 grid only for radius = 0 *)
IsLine(tube) == tube.radius = 0 \/ tube.radial_segments = 0

(* From<Curve> with the upper bound of radial_offset exclusive *)
CurveFromOffsetBelowTau(tube) ==
    IF ~(tube.length_segments > 0) THEN Panic("Must have at least one length segment")
    ELSE IF IsLine(tube) THEN make_line(tube)
    ELSE IF ~(tube.radial_segments > 0) THEN Panic("Must have at least one radial segment")
    ELSE IF ~(tube.radial_offset >= 0 /\ tube.radial_offset < TAU)
         THEN Panic("Radial offset must be in [0, 2pi]")
    ELSE IF ~(tube.radial_circumference > 0 /\ tube.radial_circumference <= TAU)
         THEN Panic("Radial circumference must be in (0, 2pi]")
    ELSE TriangleMesh(add_tube(MeshDataNew, tube))

CurveFrom(tube) ==
    IF ~(tube.length_segments > 0) THEN Panic("Must have at least one length segment")
    ELSE IF IsLine(tube) THEN make_line(tube)
    ELSE IF ~(tube.radial_segments > 0) THEN Panic("Must have at least one radial segment")
    ELSE IF ~(tube.radial_offset >= 0 /\ tube.radial_offset <= TAU)
         THEN Panic("Radial offset must be in [0, 2pi]")
    ELSE IF ~(tube.radial_circumference > 0 /\ tube.radial_circumference <= TAU)
         THEN Panic("Radial circumference must be in (0, 2pi]")
    ELSE TriangleMesh(add_tube(MeshDataNew, tube))

(* every argument the call passes to the curve's eval_at, in call order *)
CurveEvals(tube) ==
    IF ~(tube.length_segments > 0) THEN <<>>
    ELSE IF IsLine(tube) THEN make_line_evals(tube)
    ELSE IF CurveFrom(tube).kind = "panic" THEN <<>>
    ELSE calculate_frames_evals(tube.curve, tube.length_segments + 1)

(* the frames add_tube gets from calculate_frames *)
CurveFrames(tube) ==
    IF CurveFrom(tube).kind = "mesh"
    THEN calculate_frames(tube.curve, tube.length_segments + 1)
    ELSE <<>>

-----------------------------------------------------------------------------
(* The order in which a call checks its parameters, allocates its buffers and *)
(* fills them: the statements of each From::from in source order, run up to   *)
(* the first assert! or unwrap() that fails.                                  *)

Check(ok, msg) == [op |-> "check", ok |-> ok, what |-> msg]

Alloc(what) == [op |-> "alloc", ok |-> TRUE, what |-> what]

Fill(what) == [op |-> "append", ok |-> TRUE, what |-> what]

RECURSIVE RunSteps(_)
RunSteps(program) ==
    IF program = <<>> THEN <<>>
    ELSE IF ~Head(program).ok THEN <<Head(program)>>
    ELSE <<Head(program)>> \o RunSteps(Tail(program))

ConeSteps(cone) ==
    RunSteps(<<Check(cone.height > 0, "Must have positive height"),
               Check(cone.radius > 0, "Must have positive radius"),
               Check(cone.segments > 2,
                     "Must have at least 3 subdivisions to close the surface"),
               Alloc("MeshData::new"), Fill("add_bottom"), Fill("add_body")>>)

CylinderSteps(cylinder) ==
    RunSteps(<<Check(cylinder.height > 0, "Must have positive height"),
               Check(cylinder.radius_bottom >= 0, "Must have positive radius."),
               Check(cylinder.radius_top >= 0, "Must have positive radius."),
               Check(cylinder.subdivisions > 2,
                     "Must have at least 3 subdivisions to close the surface."),
               Alloc("Vec::with_capacity"), Fill("vertices"), Fill("add_indices_top"),
               Fill("add_indices_bottom"), Fill("add_indices_body")>>)

(* From<Grid> with the buffers allocated before the asserts *)
GridStepsAllocFirst(grid) ==
    RunSteps(<<Alloc("Vec::with_capacity"),
               Check(grid.width_segments > 0, "A grid must have segments"),
               Check(grid.height_segments > 0, "A grid must have segments"),
               Check(grid.width > 0, "A grid must have positive width"),
               Check(grid.height > 0, "A grid must have positive height"),
               Fill("vertices"), Fill("faces")>>)

GridSteps(grid) ==
    RunSteps(<<Check(grid.width_segments > 0, "A grid must have segments"),
               Check(grid.height_segments > 0, "A grid must have segments"),
               Check(grid.width > 0, "A grid must have positive width"),
               Check(grid.height > 0, "A grid must have positive height"),
               Alloc("Vec::with_capacity"), Fill("vertices"), Fill("faces")>>)

TorusSteps(torus) ==
    RunSteps(
        <<Check(torus.radius > 0, "The radii of a torus must be positive"),
          Check(torus.tube_radius > 0, "The radii of a torus must be positive"),
          Check(torus.radial_segments >= 3, "Must have at least 3 radial segments"),
          Check(torus.tube_segments >= 3, "3 Must have at least 3 tube segments"),
          Check(torus.radial_circumference > 0, "Radial circumference must be positive"),
          Check(torus.tube_circumference > 0, "Tube circumference must be positive"),
          Check(torus.radial_circumference <= TAU,
                "Radial circumference must not exceed 2pi radians"),
          Check(torus.tube_circumference <= TAU,
                "Tube circumference must not exceed 2pi radians")>>
        \o (IF torus.radial_circumference < TAU
            THEN <<Check(torus.radial_offset >= 0, "Radial offset must be between 0 and 2pi"),
                   Check(torus.radial_offset <= TAU,
                         "Radial offset must be between 0 and 2pi")>>
            ELSE <<>>)
        \o (IF torus.tube_radius < TAU
            THEN <<Check(torus.tube_radius >= 0, "Tube offset must be between 0 and 2pi"),
                   Check(torus.tube_radius <= TAU, "Tube offset must be between 0 and 2pi")>>
            ELSE <<>>)
        \o <<Alloc("Vec::with_capacity"), Fill("generate_torus_body")>>)

PolygonSteps(polygon) ==
    RunSteps(<<Check(PolygonValid(polygon),
                     "At least 3 points are needed to produce a closed shape."),
               Alloc("Vec::with_capacity"), Fill("vertices"),
               Check(Triangulate(polygon.points, polygon.triangulation).ok,
                     "Result::unwrap()"),
               Fill("indices")>>)

CurveSteps(tube) ==
    RunSteps(
        <<Check(tube.length_segments > 0, "Must have at least one length segment")>>
        \o (IF IsLine(tube)
            THEN <<Alloc("Vec::with_capacity"), Fill("make_line")>>
            ELSE <<Check(tube.radial_segments > 0, "Must have at least one radial segment"),
                   Check(tube.radial_offset >= 0 /\ tube.radial_offset <= TAU,
                         "Radial offset must be in [0, 2pi]"),
                   Check(tube.radial_circumference > 0 /\ tube.radial_circumference <= TAU,
                         "Radial circumference must be in (0, 2pi]"),
                   Alloc("MeshData::new"), Fill("add_tube")>>))

-----------------------------------------------------------------------------
(* The parameter records a caller can construct *)

Lengths == {-10000, 0, 10000}

ConeCalls ==
    [gen : {"Cone"}, radius : Lengths, height : Lengths, segments : 0..MaxSegments]

CylinderCalls ==
    [gen : {"Cylinder"}, height : Lengths, radius_bottom : {-10000, 0, 5000},
     radius_top : {-10000, 0, 10000}, subdivisions : 0..MaxSegments]

GridCalls ==
    [gen : {"Grid"}, width : Lengths, height : Lengths,
     width_segments : 0..MaxGrid, height_segments : 0..MaxGrid]

TorusSegments == {0} \cup 2..MaxTorus

TorusCalls ==
    [gen : {"Torus"}, radius : {0, 8000}, tube_radius : {0, 2000, 70000},
     radial_segments : TorusSegments, tube_segments : TorusSegments,
     radial_circumference : {0, 31416, TAU, 70000}, tube_circumference : {31416, TAU},
     radial_offset : {-10000, 0, 70000}, tube_offset : {-10000, 0}]

PolyPoints == {<<0, 0>>, <<1, 1>>, <<3, 1>>, <<3, 3>>}

PointLists == UNION {[1..n -> PolyPoints] : n \in 0..MaxPoints}

(* what the triangulate crate may do with a boundary of n points: return an  *)
(* error, or hand over one fan around any of the points, the same triangles  *)
(* as two fans, or a fan that leaves the last point out (a boundary with a   *)
(* repeated point); with fewer than 3 points it is never called              *)
Triangulations(n) ==
    LET around(v) == [k \in 1..n |-> (v + k - 1) % n]
        rest == [k \in 1..(n - 1) |-> IF k = 1 THEN 0 ELSE k]
        short == [k \in 1..(n - 1) |-> k - 1]
        fans == IF n < 3 THEN {<<>>}
                ELSE {<<around(v)>> : v \in 0..(n - 1)}
                       \cup (IF n < 4 THEN {} ELSE {<<<<0, 1, 2>>, rest>>, <<short>>})
    IN  [ok : {FALSE}, fans : {<<>>}] \cup [ok : {TRUE}, fans : fans]

PolygonCalls ==
    UNION {[gen : {"Polygon"}, points : [1..n -> PolyPoints],
            triangulation : Triangulations(n)] : n \in 0..MaxPoints}

PriorIndices == {<<>>, <<0, 1, 2>>, <<2, 1, 0, 3, 2, 1>>}

TrapezeCalls ==
    [gen : {"FlatTrapezeIndices"}, lower_left : 0..MaxIndex, upper_left : 0..MaxIndex,
     lower_right : 0..MaxIndex, upper_right : 0..MaxIndex, indices : PriorIndices]

Directions == {<<1, 0, 0>>, <<0, 1, 0>>, <<0, 0, 1>>, <<-1, 0, 0>>}

CurveFunctions(n) ==
    [tangents : [1..n -> Directions], closed : BOOLEAN, default_tangent : BOOLEAN]

(* the curves of length L, with radial_circumference in circumferences and *)
(* radial_offset in offsets                                                 *)
CurveRecords(L, circumferences, offsets) ==
    [gen : {"Curve"}, radius : {0, 500}, curve : CurveFunctions(L + 1),
     length_segments : {L}, radial_segments : 0..MaxRadial,
     radial_circumference : circumferences, radial_offset : offsets]

(* curves of every length with both angles in range; for the shortest curves *)
(* also each range's upper bound, a value on either side of each range, and  *)
(* both angles out of range at once                                          *)
CurveCalls ==
    UNION {CurveRecords(L, {TAU}, {0, 15708}) : L \in 0..MaxLen}
      \cup UNION {CurveRecords(L, {TAU}, {-10000, TAU, 70000})
                    \cup CurveRecords(L, {0, 31416, 70000}, {15708})
                    \cup CurveRecords(L, {0}, {-10000})
                  : L \in 0..1}

(* Mesh::from(Polygon::new_regular_ngon(radius, n)) and                      *)
(* Mesh::from(Polygon::new_triangle(radius))                                 *)
NgonRecords(ctors, sizes) ==
    UNION {[gen : {"Ngon"}, ctor : ctors, radius : {-10000, 0, 10000, 20000}, n : {n},
            triangulation : Triangulations(n)] : n \in sizes}

NgonCalls ==
    NgonRecords({"new_regular_ngon"}, 0..MaxNgon) \cup NgonRecords({"new_triangle"}, {3})

(* the f32 values a component of a tangent takes: 0, 1/2, 1, -1, infinity, NaN *)
Components == {<<0, 1>>, <<1, 2>>, <<1, 1>>, <<-1, 1>>, <<1, 0>>, <<0, 0>>}

(* initial_normal applied to a tangent; a curve's tangent_at may return any *)
(* vector, the default one NaN where the curve does not move                *)
InitialNormalCalls == [gen : {"initial_normal"}, tangent : [1..3 -> Components]]

Calls ==
    CurveCalls \cup ConeCalls \cup CylinderCalls \cup GridCalls \cup TorusCalls \cup PolygonCalls
      \cup TrapezeCalls \cup NgonCalls \cup InitialNormalCalls

(* the polygon the call's constructor builds *)
NgonPolygon(c) ==
    IF c.ctor = "new_triangle" THEN new_triangle(c.radius)
    ELSE new_regular_ngon(c.radius, c.n)

(* the calls a caller makes one after another in a sequence of calls: one *)
(* record per generator, and a Cone that fails its validation             *)
SeqCalls ==
    {[gen |-> "Cone", radius |-> 10000, height |-> 10000, segments |-> 3],
     [gen |-> "Cone", radius |-> 10000, height |-> 10000, segments |-> 2],
     [gen |-> "Cylinder", height |-> 10000, radius_bottom |-> 5000,
      radius_top |-> 10000, subdivisions |-> 3],
     GridDefault,
     [gen |-> "Torus", radius |-> 8000, tube_radius |-> 2000, radial_segments |-> 3,
      tube_segments |-> 3, radial_circumference |-> TAU, tube_circumference |-> TAU,
      radial_offset |-> 0, tube_offset |-> 0],
     [gen |-> "Polygon", points |-> <<<<0, 0>>, <<3, 1>>, <<3, 3>>>>,
      triangulation |-> [ok |-> TRUE, fans |-> <<<<0, 1, 2>>>>]],
     [gen |-> "FlatTrapezeIndices", lower_left |-> 0, upper_left |-> 1,
      lower_right |-> 2, upper_right |-> 3, indices |-> <<>>],
     [gen |-> "Curve", radius |-> 500,
      curve |-> [tangents |-> <<<<1, 0, 0>>, <<0, 1, 0>>>>, closed |-> FALSE,
                 default_tangent |-> FALSE],
      length_segments |-> 1, radial_segments |-> 3, radial_circumference |-> TAU,
      radial_offset |-> 0],
     [gen |-> "Ngon", ctor |-> "new_triangle", radius |-> 10000, n |-> 3,
      triangulation |-> [ok |-> TRUE, fans |-> <<<<0, 1, 2>>>>]],
     [gen |-> "initial_normal", tangent |-> <<<<1, 2>>, <<0, 1>>, <<0, 1>>>>]}

-----------------------------------------------------------------------------
(* The state machine: one call per behaviour of Spec, up to MaxCalls calls *)
(* one after another per behaviour of SpecSeq                              *)

Init ==
    /\ pc = "ready"
    /\ call \in Calls
    /\ out = NoResult
    /\ evals = <<>>
    /\ frames = <<>>
    /\ steps = <<>>
    /\ log = <<>>

(* the statements the call runs, in order *)
StepsOf(c) ==
    CASE c.gen = "Cone" -> ConeSteps(c)
      [] c.gen = "Cylinder" -> CylinderSteps(c)
      [] c.gen = "Grid" -> GridSteps(c)
      [] c.gen = "Torus" -> TorusSteps(c)
      [] c.gen = "Curve" -> CurveSteps(c)
      [] c.gen = "Polygon" -> PolygonSteps(c)
      [] c.gen = "Ngon" ->
           <<Alloc("Vec::with_capacity"), Fill("points")>>
             \o PolygonSteps([points |-> NgonPolygon(c).points,
                              triangulation |-> c.triangulation])
      [] c.gen = "initial_normal" -> <<>>
      [] OTHER -> <<Fill("generate_triangles")>>

Returns(result) ==
    /\ pc' = "returned"
    /\ out' = result
    /\ steps' = StepsOf(call)
    /\ UNCHANGED <<call, log>>

GenerateCone ==
    /\ pc = "ready"
    /\ call.gen = "Cone"
    /\ Returns(ConeFrom(call))
    /\ UNCHANGED <<evals, frames>>

GenerateCylinder ==
    /\ pc = "ready"
    /\ call.gen = "Cylinder"
    /\ Returns(CylinderFrom(call))
    /\ UNCHANGED <<evals, frames>>

GenerateGrid ==
    /\ pc = "ready"
    /\ call.gen = "Grid"
    /\ Returns(GridFrom(call))
    /\ UNCHANGED <<evals, frames>>

GenerateTorus ==
    /\ pc = "ready"
    /\ call.gen = "Torus"
    /\ Returns(TorusFrom(call))
    /\ UNCHANGED <<evals, frames>>

GeneratePolygon ==
    /\ pc = "ready"
    /\ call.gen = "Polygon"
    /\ Returns(PolygonFrom(call))
    /\ UNCHANGED <<evals, frames>>

GenerateNgon ==
    /\ pc = "ready"
    /\ call.gen = "Ngon"
    /\ Returns(PolygonFrom([points |-> NgonPolygon(call).points,
                            triangulation |-> call.triangulation]))
    /\ UNCHANGED <<evals, frames>>

(* a direct use of the trapeze indexer on an index buffer that already holds *)
(* call.indices                                                              *)
GenerateTriangles ==
    /\ pc = "ready"
    /\ call.gen = "FlatTrapezeIndices"
    /\ Returns([NoResult EXCEPT
                  !.kind = "indices",
                  !.indices = generate_triangles(
                      FlatTrapezeIndices(call.lower_left, call.upper_left,
                                         call.lower_right, call.upper_right),
                      call.indices)])
    /\ UNCHANGED <<evals, frames>>

GenerateCurve ==
    /\ pc = "ready"
    /\ call.gen = "Curve"
    /\ Returns(CurveFrom(call))
    /\ evals' = CurveEvals(call)
    /\ frames' = CurveFrames(call)

(* initial_normal(tangent): the vector it returns is the result's one normal *)
ApplyInitialNormal ==
    /\ pc = "ready"
    /\ call.gen = "initial_normal"
    /\ Returns([NoResult EXCEPT !.kind = "vec3",
                                 !.normals = <<initial_normal(call.tangent)>>])
    /\ UNCHANGED <<evals, frames>>

Next ==
    \/ GenerateCurve
    \/ GenerateCone
    \/ GenerateCylinder
    \/ GenerateGrid
    \/ GenerateTorus
    \/ GeneratePolygon
    \/ GenerateTriangles
    \/ GenerateNgon
    \/ ApplyInitialNormal

Spec == Init /\ [][Next]_vars

InitSeq ==
    /\ pc = "ready"
    /\ call \in SeqCalls
    /\ out = NoResult
    /\ evals = <<>>
    /\ frames = <<>>
    /\ steps = <<>>
    /\ log = <<>>

(* the caller keeps the mesh it got and makes another call *)
NextCall ==
    /\ pc = "returned"
    /\ Len(log) + 1 < MaxCalls
    /\ log' = Append(log, [call |-> call, out |-> out])
    /\ pc' = "ready"
    /\ call' \in SeqCalls
    /\ UNCHANGED <<out, evals, frames, steps>>

NextSeq ==
    \/ Next
    \/ NextCall

SpecSeq == InitSeq /\ [][NextSeq]_vars

-----------------------------------------------------------------------------
(* Properties *)

Returned(gen) == pc = "returned" /\ call.gen = gen

(* a typed failure handed back to the caller (an Err value), as opposed to a *)
(* panic that unwinds the call                                               *)
TypedFailure(o) == o.kind = "err"

NoBuffers(o) ==
    o.positions = <<>> /\ o.normals = <<>> /\ o.uvs = <<>> /\ o.indices = <<>>

AlignedBuffers(o) ==
    /\ Len(o.positions) = Len(o.normals)
    /\ Len(o.normals) = Len(o.uvs)

IndicesInRange(o) ==
    \A k \in 1..Len(o.indices) : o.indices[k] >= 0 /\ o.indices[k] < Len(o.positions)

SegmentsValid ==
    CASE call.gen = "Cone" -> call.segments >= 3
      [] call.gen = "Cylinder" -> call.subdivisions >= 3
      [] call.gen = "Grid" -> call.width_segments >= 1 /\ call.height_segments >= 1
      [] call.gen = "Torus" -> call.radial_segments >= 3 /\ call.tube_segments >= 3
      [] OTHER -> FALSE

(* C1: a mesh generated by Cone, Cylinder, Grid or Torus from a record with    *)
(* valid segment counts has positions, normals and uvs of one length, a number *)
(* of indices that is a multiple of 3, and every index below the vertex count. *)
C1_BufferWellFormed ==
    (pc = "returned" /\ SegmentsValid /\ out.kind = "mesh")
        => /\ AlignedBuffers(out)
           /\ Len(out.indices) % 3 = 0
           /\ IndicesInRange(out)

C1_Witness ==
    /\ Returned("Cylinder") /\ call.subdivisions = 4 /\ call.radius_top = 10000
    /\ out.kind = "mesh" /\ Len(out.positions) = 18 /\ Len(out.indices) = 48

(* C2: a mesh generated by Curve with non-zero radius, length_segments >= 1    *)
(* and radial_segments >= 1 (ribbon or tube) has positions, normals and uvs of *)
(* one length, exactly 6 * length_segments * radial_segments indices, and      *)
(* every index below the vertex count.                                         *)
C2_CurveBufferWellFormed ==
    (Returned("Curve") /\ call.radius # 0 /\ call.length_segments >= 1
       /\ call.radial_segments >= 1 /\ out.kind = "mesh")
        => /\ AlignedBuffers(out)
           /\ Len(out.indices) = 6 * call.length_segments * call.radial_segments
           /\ IndicesInRange(out)

C2_Witness ==
    /\ Returned("Curve") /\ out.kind = "mesh"
    /\ call.radial_segments = 2 /\ call.length_segments = 2
    /\ Len(out.positions) = 12 /\ Len(out.indices) = 24

(* C3: generate_triangles appends exactly the six values upper_left,           *)
(* upper_right, lower_left, upper_right, lower_right, lower_left, in that      *)
(* order, and leaves the indices stored before unchanged.                      *)
C3_TrapezeAppendsSix ==
    Returned("FlatTrapezeIndices")
        => LET n == Len(call.indices)
           IN  /\ Len(out.indices) = n + 6
               /\ SubSeq(out.indices, 1, n) = call.indices
               /\ out.indices[n + 1] = call.upper_left
               /\ out.indices[n + 2] = call.upper_right
               /\ out.indices[n + 3] = call.lower_left
               /\ out.indices[n + 4] = call.upper_right
               /\ out.indices[n + 5] = call.lower_right
               /\ out.indices[n + 6] = call.lower_left

C3_Witness ==
    /\ Returned("FlatTrapezeIndices")
    /\ call.indices = <<0, 1, 2>>
    /\ Cardinality({call.lower_left, call.upper_left, call.lower_right,
                    call.upper_right}) = 4
    /\ Len(out.indices) = 9

(* C4 as claimed: a Polygon with fewer than 3 points fails with a typed        *)
(* invalid-input result returned to the caller, not with a panic.              *)
C4_TypedFailureBelow3 ==
    (Returned("Polygon") /\ Len(call.points) < 3)
        => TypedFailure(out) /\ out.kind # "panic"

(* C5 as claimed: when triangulation reports an error for a Polygon with at    *)
(* least 3 points, the generator returns a typed invalid-input failure and no  *)
(* mesh.                                                                       *)
C5_TypedFailureOnTriangulationError ==
    (Returned("Polygon") /\ Len(call.points) >= 3 /\ ~call.triangulation.ok)
        => TypedFailure(out) /\ out.kind # "mesh"

(* C6 as claimed: a Cylinder with radius_top = 0 or radius_bottom = 0 fails    *)
(* with an invalid-parameter condition.                                        *)
C6_ZeroRadiusRejected ==
    (Returned("Cylinder") /\ (call.radius_top = 0 \/ call.radius_bottom = 0))
        => out.kind = "panic"

(* C7: generation fails whenever a segment count is below its threshold, and   *)
(* does not fail on the segment check when the count is at or above it.        *)
C7_SegmentThresholds ==
    /\ Returned("Cone") =>
         /\ call.segments < 3 => out.kind = "panic"
         /\ call.segments >= 3 =>
              out.msg # "Must have at least 3 subdivisions to close the surface"
    /\ Returned("Cylinder") =>
         /\ call.subdivisions < 3 => out.kind = "panic"
         /\ call.subdivisions >= 3 =>
              out.msg # "Must have at least 3 subdivisions to close the surface."
    /\ Returned("Torus") =>
         /\ (call.radial_segments < 3 \/ call.tube_segments < 3) => out.kind = "panic"
         /\ call.radial_segments >= 3 => out.msg # "Must have at least 3 radial segments"
         /\ call.tube_segments >= 3 => out.msg # "3 Must have at least 3 tube segments"
    /\ Returned("Grid") =>
         /\ (call.width_segments = 0 \/ call.height_segments = 0) => out.kind = "panic"
         /\ (call.width_segments >= 1 /\ call.height_segments >= 1) =>
              out.msg # "A grid must have segments"

C7_Witness ==
    /\ Returned("Cone") /\ call.segments = 2 /\ call.height > 0 /\ call.radius > 0
    /\ out.kind = "panic"
    /\ out.msg = "Must have at least 3 subdivisions to close the surface"

(* C8 as claimed: every eval_at call of a Curve generation passes a parameter  *)
(* t with 0 <= t <= 1.                                                         *)
C8_EvalWithinDomain ==
    \A k \in 1..Len(evals) : RatLe(<<0, 1>>, evals[k]) /\ RatLe(evals[k], <<1, 1>>)

(* the closure correction's step angle for the frames of the last call *)
FrameTheta == discrepancy_theta(frames[1], frames[Len(frames)], Len(frames))

ClosedCurveFramed ==
    /\ Returned("Curve") /\ out.kind = "mesh"
    /\ frames[1].origin = frames[Len(frames)].origin

(* a frame's normal after its twist: quarter turns are applied to the vector, *)
(* what is left of the twist (in quarter turns, within [0, 1)) is kept        *)
TurnedNormal(frame) ==
    LET q == RatMul(frame.twist, <<4, 1>>)
        whole == q[1] \div q[2]
    IN  [vec |-> RotateQuarters(frame.tangent, whole, frame.normal),
         rest |-> RatAdd(q, <<-whole, 1>>)]

(* C9 as claimed: for a closed curve the last frame is turned about its        *)
(* tangent by the whole discrepancy between the first and last normals, and    *)
(* (the two frames sharing their tangent) its normal then equals the first     *)
(* frame's normal.                                                             *)
C9_LastFrameAligned ==
    ClosedCurveFramed
        => LET first == frames[1]
               last == frames[Len(frames)]
           IN  /\ last.twist = RatMul(FrameTheta, <<Len(frames) - 1, 1>>)
               /\ first.tangent = last.tangent
                    => TurnedNormal(last) = [vec |-> first.normal, rest |-> <<0, 1>>]

(* C10 as claimed: in the closure correction frame i of N is turned about its  *)
(* tangent by i / (N - 1) of the total discrepancy, for every 0 <= i <= N - 1. *)
C10_LinearRedistribution ==
    ClosedCurveFramed
        => \A i \in 0..(Len(frames) - 1) :
              frames[i + 1].twist = RatMul(FrameTheta, <<i, 1>>)

(* C11: a Curve with length_segments >= 1 and a radius of 0 or no radial       *)
(* segments returns a line strip of exactly length_segments + 1 positions,     *)
(* sample i taken at t = i / length_segments, with no normals, uvs or indices, *)
(* whatever radial_offset and radial_circumference are.                        *)
C11_LineStrip ==
    (Returned("Curve") /\ call.length_segments >= 1
       /\ (call.radius = 0 \/ call.radial_segments = 0))
        => /\ out.kind = "line"
           /\ Len(out.positions) = call.length_segments + 1
           /\ out.normals = <<>> /\ out.uvs = <<>> /\ out.indices = <<>>
           /\ evals = [i \in 1..(call.length_segments + 1) |->
                         Rat(i - 1, call.length_segments)]

C11_Witness ==
    /\ Returned("Curve") /\ call.length_segments = 1
    /\ call.radius # 0 /\ call.radial_segments = 0
    /\ call.radial_offset < 0 /\ call.radial_circumference = 0
    /\ out.kind = "line" /\ Len(out.positions) = 2 /\ Len(evals) = 2

(* C12: a Curve that is not a line (radius not 0, radial_segments >= 1) fails  *)
(* if and only if length_segments = 0, or radial_offset is outside [0, 2pi],   *)
(* or radial_circumference is outside (0, 2pi].                                *)
C12_CurveFailsIffInvalid ==
    (Returned("Curve") /\ call.radius # 0 /\ call.radial_segments >= 1)
        => (out.kind = "panic"
              <=> \/ call.length_segments = 0
                  \/ call.radial_offset < 0 \/ call.radial_offset > TAU
                  \/ call.radial_circumference <= 0
                  \/ call.radial_circumference > TAU)

C12_Witness ==
    /\ Returned("Curve") /\ call.radius # 0 /\ call.radial_segments = 3
    /\ call.length_segments = 1 /\ call.radial_offset > TAU
    /\ call.radial_circumference = TAU
    /\ out.kind = "panic" /\ out.msg = "Radial offset must be in [0, 2pi]"

(* C13: every valid Grid yields a mesh of (width_segments + 1) *               *)
(* (height_segments + 1) vertices, each with normal (0, 1, 0), and             *)
(* 6 * width_segments * height_segments indices; Grid::default() yields 4      *)
(* vertices and 6 indices.                                                     *)
C13_GridCounts ==
    /\ (Returned("Grid") /\ call.width > 0 /\ call.height > 0
          /\ call.width_segments >= 1 /\ call.height_segments >= 1)
         => /\ out.kind = "mesh"
            /\ Len(out.positions) = (call.width_segments + 1) * (call.height_segments + 1)
            /\ Len(out.normals) = Len(out.positions)
            /\ \A k \in 1..Len(out.normals) : out.normals[k] = <<0, 1, 0>>
            /\ Len(out.indices) = 6 * call.width_segments * call.height_segments
    /\ (pc = "returned" /\ call = GridDefault)
         => out.kind = "mesh" /\ Len(out.positions) = 4 /\ Len(out.indices) = 6

C13_Witness ==
    /\ pc = "returned" /\ call = GridDefault
    /\ out.kind = "mesh" /\ Len(out.positions) = 4 /\ Len(out.normals) = 4
    /\ out.indices = <<2, 3, 0, 3, 1, 0>>

(* C15 as claimed: a Torus with tube_circumference < 2pi and a tube_offset     *)
(* outside [0, 2pi] fails with an invalid-parameter condition.                 *)
C15_TubeOffsetRejected ==
    (Returned("Torus") /\ call.tube_circumference < TAU
       /\ (call.tube_offset < 0 \/ call.tube_offset > TAU))
        => out.kind = "panic"

(* C16 as claimed: with radial_circumference = 2pi the buffers of a Torus do   *)
(* not depend on radial_offset, and with tube_circumference = 2pi they do not  *)
(* depend on tube_offset.                                                      *)
C16_OffsetIgnoredAtFullTurn ==
    (Returned("Torus") /\ out.kind = "mesh")
        => /\ call.radial_circumference = TAU
                => \A o \in {-10000, 0, 70000} :
                      TorusFrom([call EXCEPT !.radial_offset = o]) = out
           /\ call.tube_circumference = TAU
                => \A o \in {-10000, 0} :
                      TorusFrom([call EXCEPT !.tube_offset = o]) = out

(* C18: in Cone, Cylinder, Grid, Torus and Curve every parameter check that is *)
(* evaluated comes before the first allocation and the first append, and a     *)
(* call that fails a check has allocated nothing and returns no buffer.        *)
C18_ChecksBeforeBuffers ==
    (pc = "returned" /\ call.gen \in {"Cone", "Cylinder", "Grid", "Torus", "Curve"})
        => LET last == steps[Len(steps)]
               failed == last.op = "check" /\ ~last.ok
           IN  /\ \A i, j \in 1..Len(steps) :
                     (i < j /\ steps[j].op = "check") => steps[i].op = "check"
               /\ out.kind = "panic" <=> failed
               /\ failed => /\ out.msg = last.what
                            /\ NoBuffers(out)
                            /\ \A i \in 1..Len(steps) : steps[i].op = "check"

C18_Witness ==
    /\ Returned("Torus") /\ out.kind = "panic"
    /\ out.msg = "Radial offset must be between 0 and 2pi"
    /\ Len(steps) = 10 /\ call.radial_offset > TAU

(* whether vertex v (from 0) of the call's mesh has a normal the code computes *)
(* by normalize or cross, as opposed to one it writes down as a constant       *)
ComputedNormal(c, v) ==
    CASE c.gen = "Cone" -> v > c.segments + 1
      [] c.gen = "Cylinder" -> v >= 2 * c.subdivisions /\ v < 4 * c.subdivisions
      [] c.gen \in {"Torus", "Curve"} -> TRUE
      [] OTHER -> FALSE

(* a normal of length 1: a constant vector of squared length 1, or a computed *)
(* one that is defined                                                        *)
UnitLength(normal, computed) ==
    IF computed THEN normal.kind # "nan" ELSE Dot(normal, normal) = 1

(* C19 as claimed: in every mesh a generator returns, every normal referenced  *)
(* by a triangle has length 1; no accepted record yields an undefined normal.  *)
C19_UnitNormals ==
    (pc = "returned" /\ out.kind = "mesh")
        => \A k \in 1..Len(out.indices) :
              LET v == out.indices[k]
              IN  UnitLength(out.normals[v + 1], ComputedNormal(call, v))

(* C20: in a Cylinder mesh the triangles of the top cap, of the bottom cap and *)
(* of the body reference pairwise disjoint sets of vertices, which together    *)
(* are all of the 4 * subdivisions + 2 vertices.                               *)
C20_CylinderPatchesDisjoint ==
    (Returned("Cylinder") /\ out.kind = "mesh")
        => LET s == call.subdivisions
               Refs(a, b) == {out.indices[k] : k \in a..b}
               top == Refs(1, 3 * s)
               bottom == Refs(3 * s + 1, 6 * s)
               body == Refs(6 * s + 1, Len(out.indices))
           IN  /\ Len(out.positions) = 4 * s + 2
               /\ Len(out.indices) = 12 * s
               /\ top \cap bottom = {}
               /\ top \cap body = {}
               /\ bottom \cap body = {}
               /\ top \cup bottom \cup body = 0..(4 * s + 1)

C20_Witness ==
    /\ Returned("Cylinder") /\ call.subdivisions = 3 /\ out.kind = "mesh"
    /\ Len(out.indices) = 36
    /\ out.indices[1] = 12 /\ out.indices[12] = 13 /\ out.indices[19] = 6

(* the triangle that starts at index 3 * k (from 0) of the returned indices *)
Triangle(k) == <<out.indices[3 * k + 1], out.indices[3 * k + 2], out.indices[3 * k + 3]>>

(* the three ways of writing one triangle in the same cyclic order *)
Rotations(t) == {t, <<t[2], t[3], t[1]>>, <<t[3], t[1], t[2]>>}

(* C21: each cap of a Cylinder is a fan of subdivisions triangles around its   *)
(* own centre, the last one joining ring vertex subdivisions - 1 to ring       *)
(* vertex 0; bottom triangle i runs (centre, ring i, ring i + 1) and top       *)
(* triangle i runs the reverse cyclic order (centre, ring i + 1, ring i).      *)
C21_CylinderCapFans ==
    (Returned("Cylinder") /\ out.kind = "mesh")
        => LET s == call.subdivisions
           IN  \A i \in 0..(s - 1) :
                  LET n == (i + 1) % s
                  IN  /\ Triangle(i) \in Rotations(<<4 * s, n, i>>)
                      /\ Triangle(s + i) \in Rotations(<<4 * s + 1, s + i, s + n>>)

C21_Witness ==
    /\ Returned("Cylinder") /\ call.subdivisions = 4 /\ out.kind = "mesh"
    /\ Triangle(3) = <<16, 0, 3>> /\ Triangle(7) = <<7, 4, 17>>

(* the y component, before normalization, of a computed normal whose x and z *)
(* are cos and sin of its angle: 0 for a radial normal                        *)
SlopeOf(normal) == IF normal.kind = "slope" THEN normal.slope ELSE <<0, 1>>

(* C22 as claimed: the normal of every Cylinder body vertex at angle theta is  *)
(* normalize((cos theta, (radius_bottom - radius_top) / height, sin theta)),   *)
(* the same on the top ring and the bottom ring of a column.                   *)
C22_BodyNormalSlope ==
    (Returned("Cylinder") /\ out.kind = "mesh")
        => LET s == call.subdivisions
           IN  \A v \in (2 * s)..(4 * s - 1) :
                  LET normal == out.normals[v + 1]
                  IN  /\ normal.kind # "nan"
                      /\ normal.turn = Rat(v % s, s)
                      /\ SlopeOf(normal)
                           = Rat(call.radius_bottom - call.radius_top, call.height)

(* C23: a Cone mesh of s segments has 3s + 3 vertices and 6s indices: the base *)
(* is a centre and s + 1 ring vertices with the s triangles (ring i,           *)
(* ring i + 1, centre); the body is s apex and s + 1 ring vertices, offset by  *)
(* the s + 2 base vertices, with s triangles of which triangle i is the only   *)
(* one on apex vertex i.                                                       *)
C23_ConeLayout ==
    (Returned("Cone") /\ out.kind = "mesh")
        => LET s == call.segments
               base == s + 2
           IN  /\ Len(out.positions) = 3 * s + 3
               /\ Len(out.indices) = 6 * s
               /\ \A i \in 0..(s - 1) :
                     /\ Triangle(i) = <<i + 1, i + 2, 0>>
                     /\ Triangle(s + i) = <<base + s + i + 1, base + s + i, base + i>>
                     /\ out.positions[base + i + 1].r = 0
                     /\ out.positions[base + i + 1].y = Rat(call.height, 2)
                     /\ \A j \in 0..(2 * s - 1) :
                           (j # s + i) => \A c \in 1..3 : Triangle(j)[c] # base + i

C23_Witness ==
    /\ Returned("Cone") /\ call.segments = 3 /\ out.kind = "mesh"
    /\ Len(out.positions) = 12 /\ Len(out.indices) = 18
    /\ Triangle(2) = <<3, 4, 0>> /\ Triangle(5) = <<11, 10, 7>>

(* C24: a Torus mesh has (radial_segments + 1) * (tube_segments + 1) vertices, *)
(* the one for ring step h and tube step v at index h * (tube_segments + 1)    *)
(* + v with uv (h / radial_segments, v / tube_segments); for every             *)
(* h < radial_segments and v < tube_segments one trapeze with corners (h, v),  *)
(* (h, v + 1), (h + 1, v), (h + 1, v + 1) is emitted, 6 * radial_segments *    *)
(* tube_segments indices in all.                                               *)
C24_TorusLayout ==
    (Returned("Torus") /\ out.kind = "mesh")
        => LET rs == call.radial_segments
               ts == call.tube_segments
               at(h, v) == h * (ts + 1) + v
           IN  /\ Len(out.positions) = (rs + 1) * (ts + 1)
               /\ Len(out.indices) = 6 * rs * ts
               /\ \A h \in 0..rs, v \in 0..ts :
                     /\ out.uvs[at(h, v) + 1] = <<Rat(h, rs), Rat(v, ts)>>
                     /\ out.positions[at(h, v) + 1].theta_horizontal
                          = Rat(call.radial_circumference * h + call.radial_offset * rs, rs)
                     /\ out.positions[at(h, v) + 1].theta_vertical
                          = Rat(call.tube_circumference * v + call.tube_offset * ts, ts)
               /\ \A h \in 0..(rs - 1), v \in 0..(ts - 1) :
                     LET q == h * ts + v
                     IN  /\ Triangle(2 * q) = <<at(h, v + 1), at(h + 1, v + 1), at(h, v)>>
                         /\ Triangle(2 * q + 1) = <<at(h + 1, v + 1), at(h + 1, v), at(h, v)>>

C24_Witness ==
    /\ Returned("Torus") /\ out.kind = "mesh"
    /\ call.radial_segments = 3 /\ call.tube_segments = 4
    /\ Len(out.positions) = 20 /\ Len(out.indices) = 72
    /\ Triangle(23) = <<19, 18, 13>>

(* the points of the polygon a Polygon or Ngon call generates from *)
PointsOf(c) == IF c.gen = "Ngon" THEN NgonPolygon(c).points ELSE c.points

(* C25 as claimed: for a polygon of at least 3 points with non-zero extent on  *)
(* both axes, the points of minimal x get u = 0, those of maximal x get u = 1, *)
(* likewise v for y, and every uv lies in [0, 1] x [0, 1].                     *)
C25_UvCoversBoundingBox ==
    (pc = "returned" /\ call.gen \in {"Polygon", "Ngon"} /\ out.kind = "mesh")
        => LET points == PointsOf(call)
               coords(a) == {points[k][a] : k \in 1..Len(points)}
               lowest(a) == CHOOSE m \in coords(a) : \A x \in coords(a) : m <= x
               highest(a) == CHOOSE m \in coords(a) : \A x \in coords(a) : m >= x
           IN  (lowest(1) < highest(1) /\ lowest(2) < highest(2))
                 => \A k \in 1..Len(points), a \in 1..2 :
                       /\ RatLe(<<0, 1>>, out.uvs[k][a]) /\ RatLe(out.uvs[k][a], <<1, 1>>)
                       /\ points[k][a] = lowest(a) => out.uvs[k][a] = <<0, 1>>
                       /\ points[k][a] = highest(a) => out.uvs[k][a] = <<1, 1>>

(* the vertices a frame of a Curve mesh contributes *)
Stride(c) == IF c.radial_segments < 3 THEN 2 * c.radial_segments ELSE c.radial_segments + 1

(* the sample points of a Curve call before normalization, in order *)
SamplePoints(c) ==
    IF IsLine(c) THEN [k \in 1..(c.length_segments + 1) |-> eval_at(c.curve, k - 1)]
    ELSE [k \in 1..Len(frames) |-> frames[k].origin]

(* the normalized sample points of the result, in order *)
NormalizedPoints(c) ==
    IF IsLine(c) THEN out.positions
    ELSE [k \in 1..Len(frames) |-> out.positions[Stride(c) * (k - 1) + 1].origin]

(* the largest extent max - min of the points over the three axes *)
LongestExtent(points) ==
    LET coords(a) == {points[k][a] : k \in 1..Len(points)}
        length(a) == CHOOSE d \in 0..(2 * MaxLen) :
                        \E lo \in coords(a), hi \in coords(a) :
                            /\ d = hi - lo
                            /\ \A x \in coords(a) : lo <= x /\ x <= hi
    IN  Max(Max(length(1), length(2)), length(3))

(* twice the centre of the points' bounding box on axis a *)
TwiceCenter(points, a) ==
    LET coords == {points[k][a] : k \in 1..Len(points)}
        lo == CHOOSE m \in coords : \A x \in coords : m <= x
        hi == CHOOSE m \in coords : \A x \in coords : m >= x
    IN  lo + hi

(* every sample point is moved by the centre of the bounding box and scaled  *)
(* by num / (largest extent); every vertex of a frame sits on the frame's    *)
(* normalized origin and carries the frame's normal, binormal and twist      *)
NormalizedWith(num) ==
    (Returned("Curve") /\ out.kind \in {"line", "mesh"})
        => LET points == SamplePoints(call)
               longest == LongestExtent(points)
               expected(k, a) == RatMul(Rat(2 * points[k][a] - TwiceCenter(points, a), 2),
                                        Rat(num, longest))
           IN  /\ Len(NormalizedPoints(call)) = Len(points)
               /\ \A k \in 1..Len(points), a \in 1..3 :
                      NormalizedPoints(call)[k][a] = expected(k, a)
               /\ out.kind = "mesh"
                    => \A k \in 1..Len(frames), i \in 1..Stride(call) :
                          LET at == out.positions[Stride(call) * (k - 1) + i]
                          IN  /\ at.origin = NormalizedPoints(call)[k]
                              /\ at.dir.normal = frames[k].normal
                              /\ at.dir.binormal = frames[k].binormal
                              /\ at.dir.twist = frames[k].twist

(* C26, corrected: normalization moves the sample points so that the centre  *)
(* of their bounding box is the origin and scales them uniformly by          *)
(* 1 / (largest full extent max - min over the three axes), so the result    *)
(* spans [-1/2, 1/2] on the longest axis; the frames' orientation vectors    *)
(* are unchanged.  With all sample points equal the scale is infinite and    *)
(* every coordinate is NaN.                                                  *)
C26_ScaleByFullExtent == NormalizedWith(1)

(* C26 as claimed: the scale is 1 / (largest half-extent) *)
C26_ScaleByHalfExtent == NormalizedWith(2)

(* a tube over a curve whose bounding box is 2 long on x and 1 on y: the     *)
(* first origin lands on (-1/2, -1/4, 0)                                     *)
C26_Witness ==
    /\ Returned("Curve") /\ out.kind = "mesh"
    /\ call.radial_segments = 3
    /\ call.curve.tangents = <<<<1, 0, 0>>, <<1, 0, 0>>, <<0, 1, 0>>, <<0, 1, 0>>>>
    /\ ~call.curve.closed
    /\ out.positions[1].origin = <<<<-1, 2>>, <<-1, 4>>, <<0, 1>>>>
    /\ out.positions[13].origin = <<<<1, 2>>, <<1, 4>>, <<0, 1>>>>

C28_TubeLayout ==
    (Returned("Curve") /\ out.kind = "mesh" /\ call.radial_segments >= 3)
        => LET R == call.radial_segments
               L == call.length_segments
           IN  /\ Len(out.positions) = (L + 1) * (R + 1)
               /\ Len(out.normals) = (L + 1) * (R + 1)
               /\ Len(out.uvs) = (L + 1) * (R + 1)
               /\ \A j \in 0..L, i \in 0..R :
                     /\ out.uvs[(R + 1) * j + i + 1] = <<Rat(j, L), Rat(i, R)>>
                     /\ out.positions[(R + 1) * j + i + 1].origin
                          = out.positions[(R + 1) * j + 1].origin
               /\ Len(out.indices) = 6 * L * R
               /\ \A j \in 1..L, i \in 1..R :
                     LET a == (R + 1) * (j - 1) + (i - 1)
                         b == (R + 1) * j + (i - 1)
                         c == (R + 1) * j + i
                         d == (R + 1) * (j - 1) + i
                         q == R * (j - 1) + (i - 1)
                     IN  /\ Triangle(2 * q) = <<a, b, d>>
                         /\ Triangle(2 * q + 1) = <<b, c, d>>

(* a tube with R = 3 and L = 2: 12 vertices, and the last face (j = 2,       *)
(* i = 3) is the triangles (6, 10, 7) and (10, 11, 7)                        *)
C28_Witness ==
    /\ Returned("Curve") /\ out.kind = "mesh"
    /\ call.radial_segments = 3 /\ call.length_segments = 2
    /\ Len(out.positions) = 12
    /\ out.uvs[12] = <<<<1, 1>>, <<1, 1>>>>
    /\ Triangle(10) = <<6, 10, 7>>
    /\ Triangle(11) = <<10, 11, 7>>

(* C29: a ribbon (radial_segments = R in {1, 2}) has 2R vertices per frame:  *)
(* a front pair with normal n at +base and -base, and for R = 2 a back pair  *)
(* with normal -n at -base and +base; there is one quad per length segment   *)
(* per side, over the pair of that side in two consecutive frames, so no     *)
(* quad uses front and back vertices together.                               *)
C29_RibbonLayout ==
    (Returned("Curve") /\ out.kind = "mesh" /\ call.radial_segments < 3)
        => LET R == call.radial_segments
               L == call.length_segments
               front(v) == (v % (2 * R)) < 2
           IN  /\ Len(out.positions) = 2 * R * (L + 1)
               /\ Len(out.normals) = 2 * R * (L + 1)
               /\ \A j \in 0..L :
                     LET base == 2 * R * j
                     IN  /\ out.normals[base + 2] = out.normals[base + 1]
                         /\ out.positions[base + 1].dir.sign = 1
                         /\ out.positions[base + 2].dir
                              = [out.positions[base + 1].dir EXCEPT !.sign = -1]
                         /\ R = 2 =>
                              /\ out.normals[base + 3].kind = "neg"
                              /\ out.normals[base + 3].of = out.normals[base + 1]
                              /\ out.normals[base + 4] = out.normals[base + 3]
                              /\ out.positions[base + 3] = out.positions[base + 2]
                              /\ out.positions[base + 4] = out.positions[base + 1]
               /\ Len(out.indices) = 6 * L * R
               /\ \A ls \in 0..(L - 1), rs \in 0..(R - 1) :
                     LET q == R * ls + rs
                         used == {out.indices[6 * q + n] : n \in 1..6}
                     IN  /\ used = {2 * R * ls + 2 * rs, 2 * R * ls + 2 * rs + 1,
                                     2 * R * (ls + 1) + 2 * rs,
                                     2 * R * (ls + 1) + 2 * rs + 1}
                         /\ \A v \in used : front(v) <=> rs = 0

(* a double-sided ribbon of two length segments: 12 vertices, 4 quads, the   *)
(* last one over the back pairs (6, 7) and (10, 11)                          *)
C29_Witness ==
    /\ Returned("Curve") /\ out.kind = "mesh"
    /\ call.radial_segments = 2 /\ call.length_segments = 2
    /\ Len(out.positions) = 12
    /\ out.normals[3].kind = "neg"
    /\ Len(out.indices) = 24
    /\ {out.indices[18 + n] : n \in 1..6} = {6, 7, 10, 11}

(* C30 as claimed: initial_normal returns a world axis whose component in    *)
(* the tangent has the smallest absolute value, the later axis when several  *)
(* components tie for the smallest; it never returns the zero vector.        *)
C30_AxisOfSmallestComponent ==
    Returned("initial_normal")
        => LET size(a) == FAbs(call.tangent[a])
               less(a, b) == FLe(size(a), size(b)) /\ ~FLe(size(b), size(a))
               tie(a, b) == FLe(size(a), size(b)) /\ FLe(size(b), size(a))
               axis(a) == [b \in 1..3 |-> IF a = b THEN 1 ELSE 0]
           IN  /\ out.normals[1] # <<0, 0, 0>>
               /\ \E a \in 1..3 :
                     /\ out.normals[1] = axis(a)
                     /\ \A b \in 1..3 : ~less(b, a)
                     /\ \A b \in (a + 1)..3 : ~tie(a, b)

====
